---- MODULE Spec2Model ----
(***************************************************************************)
(* A model of update_netbox.py: the hostname parser, the tag derivation,   *)
(* the STP root selection, the platform verification and the thread pool   *)
(* that fans the per-device workers out.                                   *)
(*                                                                         *)
(* Python values are tagged records: PyNone, PyStr(s), PyInt(n), so that   *)
(* None, a string and an integer can be compared as Python compares them.  *)
(* A Python string the code looks INTO (a device name, a model string) is  *)
(* a sequence of one-character strings; a string that is only compared as  *)
(* a whole (a tag, a label, a captured code) is a TLA+ string.             *)
(***************************************************************************)
EXTENDS Integers, Sequences, FiniteSets, TLC

VARIABLES
    devices,      \* the device list main() holds (list of dicts)
    pc,           \* position of the main thread
    stp_root,     \* value of get_stp_root(devices), once called
    last_call,    \* the latest call of get_device_tags or verify_platform on a
                  \* parsed device: the function, its argument, its outcome
    platforms,    \* the module global `platforms` read by get_platform_id
    submitted,    \* number of devices executor.map has submitted so far
    queue,        \* the executor's work queue: positions of devices not yet taken
    thread,       \* per worker thread: idle or inside update_device_tags
    future,       \* per device position: the state of its future
    runs,         \* per device position: how many times the worker was entered
    nb_calls      \* the update requests the NetBox client has accepted, in order

vars == <<devices, pc, stp_root, last_call, platforms,
          submitted, queue, thread, future, runs, nb_calls>>

----------------------------------------------------------------------------
(* Bounds of the model *)

\* longest device list of the sequential pipeline
MaxDevices == 3
\* longest device list handed to the thread pool
MaxPoolDevices == 3
\* config.max_workers
MaxWorkers == 2

----------------------------------------------------------------------------
(* Python values *)

PyNone == [t |-> "None"]
PyStr(s) == [t |-> "str", v |-> s]
PyInt(n) == [t |-> "int", v |-> n]

\* truth value of a Python object
Truthy(x) ==
    CASE x.t = "None" -> FALSE
      [] x.t = "str" -> x.v # ""
      [] x.t = "int" -> x.v # 0
      [] OTHER -> TRUE

\* PyOr without the fallback: `d.get(code)` alone
PyOrFirst(a, b) == a

\* a or b
PyOr(a, b) == IF Truthy(a) THEN a ELSE b

\* d.get(key) for a dict with string keys and string values
DictGet(d, key) ==
    IF key.t = "str" /\ key.v \in DOMAIN d THEN PyStr(d[key.v]) ELSE PyNone

RECURSIVE Join(_)
\* the TLA+ string spelled by a sequence of characters
Join(s) == IF s = <<>> THEN "" ELSE Head(s) \o Join(Tail(s))

Range(s) == {s[k] : k \in DOMAIN s}

\* `sub in s` for two Python strings
Contains(s, sub) ==
    \E k \in 0..(Len(s) - Len(sub)) : SubSeq(s, k + 1, k + Len(sub)) = sub

----------------------------------------------------------------------------
(* Module constants *)

NETBOX_TAGS ==
    {"access-switch", "core-router", "distribution-switch", "edge-router",
     "primary", "secondary", "active", "standby"}

HOSTNAME_ROLE_MAP ==
    ("O" :> "wan-accelerator") @@ ("R" :> "router") @@ ("S" :> "switch") @@
    ("V" :> "voice-gateway") @@ ("W" :> "wireless-controller")

\* HOSTNAME_SUBROLE_MAP with the label of WO repeated for WA
HOSTNAME_SUBROLE_MAP_Dup ==
    ("AC" :> "access-switch") @@ ("CR" :> "core-router") @@
    ("DS" :> "distribution-switch") @@ ("ER" :> "edge-router") @@
    ("LB" :> "load-balancer") @@ ("SS" :> "server-switch") @@
    ("TS" :> "console-server") @@ ("VG" :> "voice-gateway") @@
    ("WA" :> "wan-accelerator") @@ ("WC" :> "wireless-controller") @@
    ("WO" :> "wan-accelerator")

HOSTNAME_SUBROLE_MAP ==
    ("AC" :> "access-switch") @@ ("CR" :> "core-router") @@
    ("DS" :> "distribution-switch") @@ ("ER" :> "edge-router") @@
    ("LB" :> "load-balancer") @@ ("SS" :> "server-switch") @@
    ("TS" :> "console-server") @@ ("VG" :> "voice-gateway") @@
    ("WA" :> "wan-router") @@ ("WC" :> "wireless-controller") @@
    ("WO" :> "wan-accelerator")

HOSTNAME_STATUS_MAP ==
    ("ACT" :> "active") @@ ("STB" :> "standby") @@ ("OLD" :> "legacy")

PLATFORM_TAG_MAP ==
    ("Network-Arista" :> "eos") @@ ("Network-IOS" :> "ios") @@
    ("Network-IOS-XE" :> "ios") @@ ("Network-Juniper" :> "junos") @@
    ("Network-NXOS" :> "nxos") @@ ("Network-Riverbed" :> "rios") @@
    ("Network-WLC" :> "aireos")

----------------------------------------------------------------------------
(* HOSTNAME_PATTERN:                                                       *)
(* ^(\w{1})(\w{3})(\d{2})(\w{2})(\d{2})\-?(ACT|STB|OLD)?.*$                *)

DigitChars == {"0", "1", "2", "3", "4", "5", "6", "7", "8", "9"}

UpperChars ==
    {"A", "B", "C", "D", "E", "F", "G", "H", "I", "J", "K", "L", "M",
     "N", "O", "P", "Q", "R", "S", "T", "U", "V", "W", "X", "Y", "Z"}

LowerChars ==
    {"a", "b", "c", "d", "e", "f", "g", "h", "i", "j", "k", "l", "m",
     "n", "o", "p", "q", "r", "s", "t", "u", "v", "w", "x", "y", "z"}

\* \d
IsDigit(c) == c \in DigitChars

\* \w
IsWord(c) == c \in UpperChars \cup LowerChars \cup DigitChars \cup {"_"}

DigitVal ==
    ("0" :> 0) @@ ("1" :> 1) @@ ("2" :> 2) @@ ("3" :> 3) @@ ("4" :> 4) @@
    ("5" :> 5) @@ ("6" :> 6) @@ ("7" :> 7) @@ ("8" :> 8) @@ ("9" :> 9)

\* whether int(s) returns: s spells a decimal number (it raises ValueError
\* otherwise)
IntOk(s) == s # <<>> /\ \A k \in DOMAIN s : IsDigit(s[k])

RECURSIVE PyIntOf(_)
\* int(s) for a string of decimal digits
PyIntOf(s) ==
    IF s = <<>> THEN 0 ELSE 10 * PyIntOf(SubSeq(s, 1, Len(s) - 1)) + DigitVal[s[Len(s)]]

\* the alternatives of (ACT|STB|OLD)
StatusAlternatives == {<<"A", "C", "T">>, <<"S", "T", "B">>, <<"O", "L", "D">>}

\* PrefixMatches with the floor as \w{2}
PrefixMatchesWordFloor(name) ==
    /\ Len(name) >= 10
    /\ \A k \in {1, 2, 3, 4, 5, 6, 7, 8} : IsWord(name[k])
    /\ \A k \in {9, 10} : IsDigit(name[k])

\* the fixed-width groups: \w \w{3} \d{2} \w{2} \d{2}
PrefixMatches(name) ==
    /\ Len(name) >= 10
    /\ \A k \in {1, 2, 3, 4, 7, 8} : IsWord(name[k])
    /\ \A k \in {5, 6, 9, 10} : IsDigit(name[k])

\* .*$ from position p: `.` takes no newline, `$` is the end of the string or
\* the place before a newline that ends the string
RestMatches(name, p) ==
    \A k \in p..Len(name) : name[k] = "\n" => k = Len(name)

\* One way through \-?(ACT|STB|OLD)?.*$ after the prefix: the dash taken or
\* not, the status group taken or not.
PathMatches(name, dash, status) ==
    LET p == IF dash THEN 12 ELSE 11
        q == IF status THEN p + 3 ELSE p
    IN  /\ dash => (Len(name) >= 11 /\ name[11] = "-")
        /\ status => (Len(name) >= p + 2 /\ SubSeq(name, p, p + 2) \in StatusAlternatives)
        /\ RestMatches(name, q)

\* The ways through the optional groups in the order the backtracking engine
\* tries them: a greedy `?` first tries to take its operand.
PathOrder ==
    << [dash |-> TRUE, status |-> TRUE], [dash |-> TRUE, status |-> FALSE],
       [dash |-> FALSE, status |-> TRUE], [dash |-> FALSE, status |-> FALSE] >>

\* pattern.search(name): PyNone, or the match object's groups
PatternSearch(name) ==
    IF ~PrefixMatches(name) THEN PyNone
    ELSE LET ok == {k \in DOMAIN PathOrder :
                      PathMatches(name, PathOrder[k].dash, PathOrder[k].status)}
         IN  IF ok = {} THEN PyNone
             ELSE LET k == CHOOSE m \in ok : \A n \in ok : m <= n
                      path == PathOrder[k]
                      p == IF path.dash THEN 12 ELSE 11
                  IN  [t |-> "match",
                       role |-> PyStr(Join(SubSeq(name, 1, 1))),
                       site |-> PyStr(Join(SubSeq(name, 2, 4))),
                       floor |-> SubSeq(name, 5, 6),
                       subrole |-> PyStr(Join(SubSeq(name, 7, 8))),
                       index |-> SubSeq(name, 9, 10),
                       status |-> IF path.status
                                  THEN PyStr(Join(SubSeq(name, p, p + 2)))
                                  ELSE PyNone]

----------------------------------------------------------------------------
(* parse_hostname *)

AbsentProps ==
    [role |-> PyNone, site |-> PyNone, floor |-> PyNone,
     subrole |-> PyNone, index |-> PyNone, status |-> PyNone]

\* The dict parse_hostname builds, or the ValueError of int(): the whole
\* dict literal is evaluated before parsed_props.update is called.
ParsedProps(name) ==
    LET parsed_hostname == PatternSearch(name)
    IN  IF parsed_hostname.t = "match"
        THEN IF IntOk(parsed_hostname.floor) /\ IntOk(parsed_hostname.index)
             THEN [role |-> PyOr(DictGet(HOSTNAME_ROLE_MAP, parsed_hostname.role),
                                 parsed_hostname.role),
                   site |-> parsed_hostname.site,
                   floor |-> PyInt(PyIntOf(parsed_hostname.floor)),
                   subrole |-> PyOr(DictGet(HOSTNAME_SUBROLE_MAP, parsed_hostname.subrole),
                                    parsed_hostname.subrole),
                   index |-> PyInt(PyIntOf(parsed_hostname.index)),
                   status |-> PyOr(DictGet(HOSTNAME_STATUS_MAP, parsed_hostname.status),
                                   parsed_hostname.status)]
             ELSE [t |-> "raise", exc |-> "ValueError"]
        ELSE AbsentProps

Raises(x) == "t" \in DOMAIN x /\ x.t = "raise"

\* device.update({"parsed_props": parsed_props}); return device
\* (or the exception, the device left as it was)
parse_hostname(device) ==
    LET parsed_props == ParsedProps(device.name)
    IN  IF Raises(parsed_props) THEN parsed_props
        ELSE [parsed_props |-> parsed_props] @@ device

----------------------------------------------------------------------------
(* get_stp_root *)

RECURSIVE SelectSeq2(_, _)
\* [x for x in s if Test(x)], by position
SelectSeq2(s, keep) ==
    IF s = <<>> THEN <<>>
    ELSE LET rest == SelectSeq2(SubSeq(s, 1, Len(s) - 1), keep)
         IN  IF Len(s) \in keep THEN Append(rest, s[Len(s)]) ELSE rest

get_devices_with_subrole(devs, subrole) ==
    SelectSeq2(devs, {k \in DOMAIN devs : devs[k].parsed_props.subrole = PyStr(subrole)})

RECURSIVE ScanIndexFirstWins(_, _)
\* ScanIndex that keeps a slot once it is filled
ScanIndexFirstWins(group, result) ==
    IF group = <<>> THEN result
    ELSE LET d == Head(group)
             r1 == IF d.parsed_props.index = PyInt(1) /\ result.primary = PyNone
                   THEN [result EXCEPT !.primary = d] ELSE result
             r2 == IF d.parsed_props.index = PyInt(2) /\ result.secondary = PyNone
                   THEN [r1 EXCEPT !.secondary = d] ELSE r1
         IN  ScanIndexFirstWins(Tail(group), r2)

RECURSIVE ScanIndex(_, _)
\* the loop body of get_stp_root over one group, from the first device to the
\* last: each device of index 1 (2) overwrites the primary (secondary) slot
ScanIndex(group, result) ==
    IF group = <<>> THEN result
    ELSE LET d == Head(group)
             r1 == IF d.parsed_props.index = PyInt(1)
                   THEN [result EXCEPT !.primary = d] ELSE result
             r2 == IF d.parsed_props.index = PyInt(2)
                   THEN [r1 EXCEPT !.secondary = d] ELSE r1
         IN  ScanIndex(Tail(group), r2)

\* get_stp_root that looks at the core routers first
get_stp_root_CoreFirst(devs) ==
    LET result == [primary |-> PyNone, secondary |-> PyNone]
        core_routers == get_devices_with_subrole(devs, "core-router")
    IN  IF core_routers # <<>>
        THEN ScanIndex(core_routers, result)
        ELSE ScanIndex(get_devices_with_subrole(devs, "distribution-switch"), result)

get_stp_root(devs) ==
    LET result == [primary |-> PyNone, secondary |-> PyNone]
        distribution_switches == get_devices_with_subrole(devs, "distribution-switch")
    IN  IF distribution_switches # <<>>
        THEN ScanIndex(distribution_switches, result)
        ELSE ScanIndex(get_devices_with_subrole(devs, "core-router"), result)

----------------------------------------------------------------------------
(* get_device_tags *)

\* parsed_props.values(), in the dict's insertion order
PropValues(props) ==
    << props.role, props.site, props.floor, props.subrole, props.index, props.status >>

\* prop in NETBOX_TAGS
InNetboxTags(prop) == prop.t = "str" /\ prop.v \in NETBOX_TAGS

RECURSIVE ParsedTags(_)
\* the tags appended by the first loop, as a list
ParsedTags(values) ==
    IF values = <<>> THEN <<>>
    ELSE LET rest == ParsedTags(SubSeq(values, 1, Len(values) - 1))
             prop == values[Len(values)]
         IN  IF InNetboxTags(prop) THEN Append(rest, prop.v) ELSE rest

\* RedundancyTags that looks for distribution switches only
RedundancyTagsSwitchOnly(device, device_tags) ==
    IF "distribution-switch" \in Range(device_tags)
    THEN (IF device.parsed_props.index = PyInt(1) THEN <<"primary">> ELSE <<>>)
         \o (IF device.parsed_props.index = PyInt(2) THEN <<"secondary">> ELSE <<>>)
    ELSE <<>>

\* the primary / secondary step
RedundancyTags(device, device_tags) ==
    IF "distribution-switch" \in Range(device_tags) \/ "core-router" \in Range(device_tags)
    THEN (IF device.parsed_props.index = PyInt(1) THEN <<"primary">> ELSE <<>>)
         \o (IF device.parsed_props.index = PyInt(2) THEN <<"secondary">> ELSE <<>>)
    ELSE <<>>

\* DualRoleTags that looks for "3850" only
DualRoleTags3850Only(device, device_tags) ==
    IF "core-router" \in Range(device_tags)
       /\ Contains(device.device_type.model, <<"3", "8", "5", "0">>)
    THEN <<"access-switch">>
    ELSE <<>>

\* the 3750/3850 dual-purpose step
DualRoleTags(device, device_tags) ==
    IF "core-router" \in Range(device_tags)
       /\ (\/ Contains(device.device_type.model, <<"3", "8", "5", "0">>)
           \/ Contains(device.device_type.model, <<"3", "7", "5", "0">>))
    THEN <<"access-switch">>
    ELSE <<>>

\* device["parsed_props"] is a dict of six keys, so `if device["parsed_props"]`
\* is always taken. list(set(device_tags)): the value is used as a set.
get_device_tags(device) ==
    LET t1 == ParsedTags(PropValues(device.parsed_props))
        t2 == t1 \o RedundancyTags(device, t1)
        t3 == t2 \o DualRoleTags(device, t2)
    IN  Range(t3)

----------------------------------------------------------------------------
(* update_device_tags, up to its call of netbox.dcim.update_device *)

\* UpdateTags without the test `tag not in device["tags"]`
UpdateTagsAll(device, device_tags) == device_tags

\* the tags of device_tags that are not in device["tags"]
UpdateTags(device, device_tags) == {tag \in device_tags : tag \notin Range(device.tags)}

\* PyNone when the function returns without a request (no derived tag),
\* else the keyword arguments of netbox.dcim.update_device
update_device_tags(device) ==
    LET device_tags == get_device_tags(device)
    IN  IF device_tags # {}
        THEN [t |-> "update_device", device_name |-> device.name,
              tags |-> UpdateTags(device, device_tags)]
        ELSE PyNone

----------------------------------------------------------------------------
(* verify_platform *)

Unbound == [t |-> "unbound"]

\* get_platform_id: a NameError when the global is unbound, the id of the
\* first platform of that slug, None when the loop ends without a return
get_platform_id(platform_slug, platforms_global) ==
    IF platforms_global = Unbound THEN [t |-> "raise", exc |-> "NameError"]
    ELSE LET hits == {k \in DOMAIN platforms_global :
                        platforms_global[k].slug = platform_slug}
         IN  IF hits = {} THEN [t |-> "return", value |-> PyNone]
             ELSE [t |-> "return",
                   value |-> PyInt(platforms_global[CHOOSE k \in hits :
                                                      \A m \in hits : k <= m].id)]

\* How verify_platform ends and the write it issues on the way:
\* end is "return" or "raise", write is PyNone or the arguments of
\* netbox.dcim.update_device_by_id.

\* the else branch: the device has no platform
VerifyUnset(device, platforms_global) ==
    IF device.tags = <<>>
    THEN [end |-> "raise", exc |-> "IndexError", write |-> PyNone]
    ELSE LET tag == device.tags[1]
             platform_slug == DictGet(PLATFORM_TAG_MAP, PyStr(tag))
         IN  IF Truthy(platform_slug)
             THEN LET platform_id == get_platform_id(platform_slug.v, platforms_global)
                  IN  IF platform_id.t = "raise"
                      THEN [end |-> "raise", exc |-> platform_id.exc, write |-> PyNone]
                      ELSE [end |-> "return", exc |-> "",
                            write |-> [t |-> "update_device_by_id",
                                       device_id |-> device.id,
                                       platform |-> platform_id.value]]
             ELSE [end |-> "return", exc |-> "", write |-> PyNone]

\* verify_platform without the test of device["platform"]
verify_platform_NoTest(device, platforms_global) ==
    VerifyUnset(device, platforms_global)

verify_platform(device, platforms_global) ==
    IF Truthy(device.platform)
    THEN [end |-> "return", exc |-> "", write |-> PyNone]
    ELSE VerifyUnset(device, platforms_global)

----------------------------------------------------------------------------
(* The inputs: device names, models, tag lists, platforms *)

\* role + site + floor + subrole + index + suffix
Hostname(role, site, floor, subrole, index, suffix) ==
    role \o site \o floor \o subrole \o index \o suffix

SiteFUL == <<"F", "U", "L">>

\* the keys of HOSTNAME_ROLE_MAP and codes that are not keys
RoleCodes ==
    {<<"O">>, <<"R">>, <<"S">>, <<"V">>, <<"W">>, <<"X">>, <<"r">>, <<"_">>,
     <<"1">>}

\* the keys of HOSTNAME_SUBROLE_MAP and codes that are not keys
SubroleCodes ==
    {<<"A", "C">>, <<"C", "R">>, <<"D", "S">>, <<"E", "R">>, <<"L", "B">>,
     <<"S", "S">>, <<"T", "S">>, <<"V", "G">>, <<"W", "A">>, <<"W", "C">>,
     <<"W", "O">>, <<"Z", "Z">>, <<"a", "c">>, <<"A", "1">>}

StatusSuffixes ==
    {<<>>, <<"-", "A", "C", "T">>, <<"-", "S", "T", "B">>,
     <<"-", "O", "L", "D">>, <<"-", "N", "E", "W">>}

\* what may follow the index: a status with and without the dash, free text,
\* newlines
Suffixes ==
    {<<>>, <<"-", "A", "C", "T">>, <<"A", "C", "T">>, <<"S", "T", "B">>,
     <<"-", "O", "L", "D">>,
     <<"-", "A", "C", "T", "-", "e", "x", "t", "r", "a">>, <<"-", "A", "C">>,
     <<"-", "a", "c", "t">>, <<"-">>, <<"-", "-", "A", "C", "T">>,
     <<"-", "A", "C", "T", "O", "L", "D">>, <<"\n">>,
     <<"-", "A", "C", "T", "\n">>, <<"-", "\n", "x">>,
     <<"-", "A", "C", "T", "\n", "\n">>, <<"x", "-", "A", "C", "T">>}

TwoDigits == {<<"0", "1">>, <<"0", "2">>, <<"0", "3">>, <<"1", "0">>, <<"0", "0">>}

\* names that do not fit the fixed-width prefix
UnmatchedNames ==
    {<<>>, <<"s", "h", "o", "r", "t", "n", "a", "m", "e">>, <<"R">>,
     <<"R", "F", "U", "L">>, <<"R", "F", "U", "L", "0", "1">>,
     <<"R", "F", "U", "L", "0", "1", "A", "C">>,
     <<"R", "F", "U", "L", "0", "1", "A", "C", "0">>,
     <<"-", "F", "U", "L", "0", "1", "A", "C", "0", "2">>,
     <<"R", "F", "-", "L", "0", "1", "A", "C", "0", "2">>,
     <<"R", "F", "U", "L", "A", "1", "A", "C", "0", "2">>,
     <<"R", "F", "U", "L", "0", "A", "A", "C", "0", "2">>,
     <<"R", "F", "U", "L", "0", "1", "A", "-", "0", "2">>,
     <<"R", "F", "U", "L", "0", "1", " ", "C", "0", "2">>,
     <<"R", "F", "U", "L", "0", "1", "A", "C", "A", "2">>,
     <<"R", "F", "U", "L", "0", "1", "A", "C", "0", "A">>,
     <<"R", "F", "U", "L", "0", "1", "A", "C", "-", "0", "2">>,
     <<" ", "R", "F", "U", "L", "0", "1", "A", "C", "0", "2">>,
     <<"x", "R", "F", "U", "L", "0", "1", "A", "C", "0">>,
     <<"R", "F", "U", "L", "1", "A", "C", "0", "2", "-", "A", "C", "T">>,
     <<"\n", "R", "F", "U", "L", "0", "1", "A", "C", "0", "2">>}

\* every role code with every subrole code and status
CodeNames ==
    {Hostname(r, SiteFUL, <<"0", "1">>, sr, <<"0", "2">>, sx) :
        r \in RoleCodes, sr \in SubroleCodes, sx \in StatusSuffixes}

\* every floor, index and suffix
NumberNames ==
    {Hostname(<<"R">>, SiteFUL, f, <<"A", "C">>, i, sx) :
        f \in {<<"0", "1">>, <<"1", "2">>, <<"0", "0">>}, i \in TwoDigits, sx \in Suffixes}

HostNames == CodeNames \cup NumberNames \cup UnmatchedNames

Models ==
    {<<"C", "9", "3", "0", "0">>, <<"C", "3", "8", "5", "0">>,
     <<"3", "7", "5", "0", "X">>, <<"W", "S", "-", "C", "3", "7", "5", "0">>,
     <<"C", "3", "5", "8", "0">>, <<"3", "8", "5">>, <<>>}

PlainModel == <<"C", "9", "3", "0", "0">>

\* a device dict as netbox.dcim.get_devices returns it, without its id
Device(name, model, tags, platform) ==
    [name |-> name, device_type |-> [model |-> model], tags |-> tags,
     platform |-> platform]

\* devices that exercise the parser
ParseDevices == {Device(n, PlainModel, <<>>, PyNone) : n \in HostNames}

\* distribution switches, core routers and others, with every index and model
TagNames ==
    {Hostname(r, SiteFUL, <<"0", "1">>, sr, i, sx) :
        r \in {<<"S">>, <<"R">>},
        sr \in {<<"D", "S">>, <<"C", "R">>, <<"A", "C">>, <<"E", "R">>, <<"Z", "Z">>},
        i \in TwoDigits, sx \in {<<>>, <<"-", "A", "C", "T">>}}
    \cup {<<"s", "h", "o", "r", "t", "n", "a", "m", "e">>}

TagDevices == {Device(n, m, <<>>, PyNone) : n \in TagNames, m \in Models}

TagLists ==
    {<<>>, <<"Network-IOS">>, <<"Network-Arista", "core-router">>,
     <<"Network-Unknown">>, <<"core-router", "Network-IOS">>, <<"">>}

PlatformValues == {PyNone, [t |-> "dict", slug |-> "ios"]}

VerifyDevices ==
    {Device(<<"S", "F", "U", "L", "0", "1", "D", "S", "0", "1">>, PlainModel, tg, pf) :
        tg \in TagLists, pf \in PlatformValues}

\* the devices the root selection is run over: two distribution switches of
\* index 1, two of index 2, one of index 3, core routers, an access switch
StpNames ==
    {<<"S", "F", "U", "L", "0", "1", "D", "S", "0", "1">>,
     <<"S", "F", "U", "L", "0", "2", "D", "S", "0", "1">>,
     <<"S", "F", "U", "L", "0", "1", "D", "S", "0", "2", "-", "A", "C", "T">>,
     <<"S", "F", "U", "L", "0", "2", "D", "S", "0", "2">>,
     <<"S", "F", "U", "L", "0", "1", "D", "S", "0", "3">>,
     <<"R", "F", "U", "L", "0", "1", "C", "R", "0", "1">>,
     <<"R", "F", "U", "L", "0", "2", "C", "R", "0", "1">>,
     <<"R", "F", "U", "L", "0", "1", "C", "R", "0", "2">>,
     <<"S", "F", "U", "L", "0", "1", "A", "C", "0", "1">>}

StpDevices == {Device(n, PlainModel, <<>>, PyNone) : n \in StpNames}

\* the devices handed to the thread pool: every derived tag missing, every
\* derived tag present, some present beside a tag that is not derived, and a
\* name that gives no tag
PoolDevices ==
    {Device(<<"S", "F", "U", "L", "0", "1", "D", "S", "0", "1">>, PlainModel, <<>>, PyNone),
     Device(<<"S", "F", "U", "L", "0", "2", "D", "S", "0", "1">>, PlainModel,
            <<"distribution-switch", "primary">>, PyNone),
     Device(<<"R", "F", "U", "L", "0", "1", "C", "R", "0", "2", "-", "A", "C", "T">>, PlainModel,
            <<"Network-IOS", "active">>, PyNone),
     Device(<<"s", "h", "o", "r", "t", "n", "a", "m", "e">>, PlainModel, <<"Network-IOS">>, PyNone)}

RECURSIVE Arrangements(_, _)
\* the sequences over S of length n
Arrangements(S, n) ==
    IF n = 0 THEN {<<>>}
    ELSE {Append(a, x) : a \in Arrangements(S, n - 1), x \in S}

\* no element twice: the devices of a list are different devices
Injective(s) == \A j, k \in DOMAIN s : j # k => s[j] # s[k]

DistinctLists(S, max) ==
    UNION {{a \in Arrangements(S, n) : Injective(a)} : n \in 0..max}

\* the lists get_devices can return: one device of any kind, or up to
\* MaxDevices devices of one site
DeviceLists ==
    {<<d>> : d \in ParseDevices \cup TagDevices \cup VerifyDevices}
    \cup DistinctLists(StpDevices, MaxDevices)

PoolLists == DistinctLists(PoolDevices, MaxPoolDevices)

\* the dicts of a fetched list carry their ids
WithIds(list) == [k \in DOMAIN list |-> [id |-> k] @@ list[k]]

----------------------------------------------------------------------------
(* main(): fetch, parse every hostname in list order, select the STP roots; *)
(* get_device_tags and verify_platform applied to a parsed device          *)

NotCalled == [t |-> "not called"]

PoolIdle ==
    /\ submitted = 0
    /\ queue = <<>>
    /\ thread = [w \in 1..MaxWorkers |-> PyNone]
    /\ nb_calls = <<>>

Init ==
    /\ devices = <<>>
    /\ pc = "start"
    /\ stp_root = NotCalled
    /\ last_call = NotCalled
    /\ platforms = Unbound
    /\ future = <<>>
    /\ runs = <<>>
    /\ PoolIdle

Parsed(device) == "parsed_props" \in DOMAIN device

\* devices = netbox.dcim.get_devices(...), the answer one of `lists`
Fetch(lists) ==
    /\ pc = "start"
    /\ \E list \in lists :
          /\ devices' = WithIds(list)
          /\ pc' = IF list = <<>> THEN "parsed" ELSE "parse"
    /\ UNCHANGED <<stp_root, last_call, platforms,
                   submitted, queue, thread, future, runs, nb_calls>>

GetDevices == Fetch(DeviceLists)

\* one step of list(map(parse_hostname, devices)); an exception ends main()
ParseHostname ==
    /\ pc = "parse"
    /\ LET k == CHOOSE j \in DOMAIN devices :
                  /\ ~Parsed(devices[j])
                  /\ \A m \in 1..(j - 1) : Parsed(devices[m])
           out == parse_hostname(devices[k])
       IN  IF Raises(out)
           THEN /\ pc' = "parse raised"
                /\ UNCHANGED devices
           ELSE /\ devices' = [devices EXCEPT ![k] = out]
                /\ pc' = IF k = Len(devices) THEN "parsed" ELSE "parse"
    /\ UNCHANGED <<stp_root, last_call, platforms,
                   submitted, queue, thread, future, runs, nb_calls>>

\* pprint(get_stp_root(devices)), the last statement of main()
GetStpRoot ==
    /\ pc = "parsed"
    /\ stp_root' = get_stp_root(devices)
    /\ pc' = "done"
    /\ UNCHANGED <<devices, last_call, platforms,
                   submitted, queue, thread, future, runs, nb_calls>>

\* get_device_tags(device) for a device of the parsed list
GetDeviceTags ==
    /\ pc = "parsed"
    /\ \E k \in DOMAIN devices :
          last_call' = [t |-> "get_device_tags", device |-> devices[k],
                        result |-> get_device_tags(devices[k])]
    /\ UNCHANGED <<devices, pc, stp_root, platforms,
                   submitted, queue, thread, future, runs, nb_calls>>

\* verify_platform(device) for a device of the parsed list; the write it
\* issues, if any, reaches the NetBox client
VerifyPlatform ==
    /\ pc = "parsed"
    /\ \E k \in DOMAIN devices :
          LET out == verify_platform(devices[k], platforms)
          IN  /\ last_call' = [t |-> "verify_platform", device |-> devices[k],
                            out |-> out]
              /\ nb_calls' = IF out.write = PyNone THEN nb_calls
                             ELSE Append(nb_calls, out.write)
    /\ UNCHANGED <<devices, pc, stp_root, platforms,
                   submitted, queue, thread, future, runs>>

Next == GetDevices \/ ParseHostname \/ GetStpRoot \/ GetDeviceTags \/ VerifyPlatform

Spec == Init /\ [][Next]_vars

----------------------------------------------------------------------------
(* map_threads: the thread pool behind update_all_device_tags and          *)
(* verify_all_platforms                                                    *)

PoolGetDevices == Fetch(PoolLists)

\* verify_all_platforms(devices): the argument `verify_platforms` names no
\* function of the module, so evaluating it raises NameError before
\* map_threads is entered
CallVerifyAllPlatforms ==
    /\ pc = "parsed"
    /\ pc' = "verify_all_platforms raised"
    /\ UNCHANGED <<devices, stp_root, last_call, platforms,
                   submitted, queue, thread, future, runs, nb_calls>>

\* update_all_device_tags(devices): map_threads(update_device_tags, devices)
\* creates the executor
CallUpdateAllDeviceTags ==
    /\ pc = "parsed"
    /\ pc' = "map"
    /\ future' = [k \in DOMAIN devices |-> "none"]
    /\ runs' = [k \in DOMAIN devices |-> 0]
    /\ UNCHANGED <<devices, stp_root, last_call, platforms,
                   submitted, queue, thread, nb_calls>>

\* executor.map submits the devices one by one, in list order, while the
\* worker threads already run
MapSubmit ==
    /\ pc = "map"
    /\ submitted < Len(devices)
    /\ submitted' = submitted + 1
    /\ queue' = Append(queue, submitted + 1)
    /\ future' = [future EXCEPT ![submitted + 1] = "pending"]
    /\ UNCHANGED <<devices, pc, stp_root, last_call, platforms,
                   thread, runs, nb_calls>>

\* executor.map has returned its iterator; the with block is left and
\* executor.shutdown(wait=True) begins
ExitWith ==
    /\ pc = "map"
    /\ submitted = Len(devices)
    /\ pc' = "shutdown"
    /\ UNCHANGED <<devices, stp_root, last_call, platforms,
                   submitted, queue, thread, future, runs, nb_calls>>

\* a free worker thread takes the next work item and runs update_device_tags
\* up to the call of netbox.dcim.update_device, or to its end when no tag is
\* derived
WorkerTake ==
    \E w \in DOMAIN thread :
       /\ thread[w] = PyNone
       /\ queue # <<>>
       /\ LET k == Head(queue)
              request == update_device_tags(devices[k])
          IN  /\ queue' = Tail(queue)
              /\ runs' = [runs EXCEPT ![k] = @ + 1]
              /\ IF request = PyNone
                 THEN /\ future' = [future EXCEPT ![k] = "result"]
                      /\ UNCHANGED thread
                 ELSE /\ future' = [future EXCEPT ![k] = "running"]
                      /\ thread' = [thread EXCEPT ![w] =
                                       [t |-> "call", k |-> k, request |-> request]]
       /\ UNCHANGED <<devices, pc, stp_root, last_call, platforms,
                      submitted, nb_calls>>

\* netbox.dcim.update_device returns: the request was accepted
CallReturns ==
    \E w \in DOMAIN thread :
       /\ thread[w] # PyNone
       /\ nb_calls' = Append(nb_calls, thread[w].request)
       /\ future' = [future EXCEPT ![thread[w].k] = "result"]
       /\ thread' = [thread EXCEPT ![w] = PyNone]
       /\ UNCHANGED <<devices, pc, stp_root, last_call, platforms,
                      submitted, queue, runs>>

\* netbox.dcim.update_device raises: the exception is kept in the future,
\* the thread goes on with the queue
CallRaises ==
    \E w \in DOMAIN thread :
       /\ thread[w] # PyNone
       /\ future' = [future EXCEPT ![thread[w].k] = "exception"]
       /\ thread' = [thread EXCEPT ![w] = PyNone]
       /\ UNCHANGED <<devices, pc, stp_root, last_call, platforms,
                      submitted, queue, runs, nb_calls>>

\* shutdown(wait=True) returns once every submitted work item has ended;
\* map_threads returns the iterator, which nothing consumes
PoolJoined ==
    /\ pc = "shutdown"
    /\ \A k \in DOMAIN future : future[k] \in {"result", "exception"}
    /\ pc' = "returned"
    /\ UNCHANGED <<devices, stp_root, last_call, platforms,
                   submitted, queue, thread, future, runs, nb_calls>>

PoolNext ==
    \/ PoolGetDevices
    \/ ParseHostname
    \/ CallVerifyAllPlatforms
    \/ CallUpdateAllDeviceTags
    \/ MapSubmit
    \/ ExitWith
    \/ WorkerTake
    \/ CallReturns
    \/ CallRaises
    \/ PoolJoined

SpecPool == Init /\ [][PoolNext]_vars

\* the steps of the main thread inside map_threads and of the worker threads
PoolStep ==
    MapSubmit \/ ExitWith \/ WorkerTake \/ CallReturns \/ CallRaises \/ PoolJoined

\* inside map_threads the main thread and the worker threads get to run
FairSpecPool == SpecPool /\ WF_vars(PoolStep)

----------------------------------------------------------------------------
(* Properties of the parser *)

\* the naming convention, position by position: one role character, three
\* site characters, two floor digits, two subrole characters, two index
\* digits, then anything on the same line
FitsConvention(name) ==
    /\ Len(name) >= 10
    /\ \A k \in 1..10 :
          IF k \in {5, 6, 9, 10} THEN name[k] \in DigitChars
          ELSE name[k] \in UpperChars \cup LowerChars \cup DigitChars \cup {"_"}
    /\ \A k \in 11..(Len(name) - 1) : name[k] # "\n"

RoleCode(name) == Join(SubSeq(name, 1, 1))
SubroleCode(name) == Join(SubSeq(name, 7, 8))

\* the status code of a name: the three letters after the index and an
\* optional dash, when they are ACT, STB or OLD
StatusCode(name) ==
    LET p == IF Len(name) >= 11 /\ name[11] = "-" THEN 12 ELSE 11
    IN  IF Len(name) >= p + 2 /\ Join(SubSeq(name, p, p + 2)) \in {"ACT", "STB", "OLD"}
        THEN PyStr(Join(SubSeq(name, p, p + 2)))
        ELSE PyNone

\* C1: parse_hostname never fails, and the record it attaches is all-absent
\* (exactly when the name does not fit the convention, so for every name
\* shorter than 10 characters) or has role, site, floor, subrole and index
\* all populated; never some of the five.
C1_AllOrNothing ==
    /\ pc # "parse raised"
    /\ \A k \in DOMAIN devices :
          Parsed(devices[k]) =>
             LET p == devices[k].parsed_props
                 name == devices[k].name
             IN  /\ \/ p = AbsentProps
                    \/ \A f \in {"role", "site", "floor", "subrole", "index"} : p[f] # PyNone
                 /\ (p = AbsentProps) <=> ~FitsConvention(name)
                 /\ Len(name) < 10 => p = AbsentProps

\* "shortname" has been parsed and every field is absent
C1_Witness ==
    \E k \in DOMAIN devices :
       /\ Parsed(devices[k])
       /\ Join(devices[k].name) = "shortname"
       /\ devices[k].parsed_props = AbsentProps

\* the table value of a code that is a key, the code itself otherwise
Translate(map, code) == IF code \in DOMAIN map THEN PyStr(map[code]) ELSE PyStr(code)

\* C2: for a name that matches, role, subrole and status are the table value
\* of the captured code when the code is a key and the raw code otherwise
\* (status None when no status is captured), site is the three raw
\* characters and floor and index are the values of their two digits.
C2_Lookup ==
    \A k \in DOMAIN devices :
       (Parsed(devices[k]) /\ FitsConvention(devices[k].name)) =>
          LET p == devices[k].parsed_props
              name == devices[k].name
              status == StatusCode(name)
          IN  /\ p.role = Translate(HOSTNAME_ROLE_MAP, RoleCode(name))
              /\ p.subrole = Translate(HOSTNAME_SUBROLE_MAP, SubroleCode(name))
              /\ p.status = IF status = PyNone THEN PyNone
                            ELSE Translate(HOSTNAME_STATUS_MAP, status.v)
              /\ p.site = PyStr(Join(SubSeq(name, 2, 4)))
              /\ p.floor = PyInt(10 * DigitVal[name[5]] + DigitVal[name[6]])
              /\ p.index = PyInt(10 * DigitVal[name[9]] + DigitVal[name[10]])
              /\ Join(name) = "RFUL01AC02-ACT-extra" =>
                    p = [role |-> PyStr("router"), site |-> PyStr("FUL"),
                         floor |-> PyInt(1), subrole |-> PyStr("access-switch"),
                         index |-> PyInt(2), status |-> PyStr("active")]

\* a name whose role and subrole codes are in no table has been parsed, and
\* the raw codes were kept
C2_Witness ==
    \E k \in DOMAIN devices :
       /\ Parsed(devices[k])
       /\ Join(devices[k].name) = "XFUL01ZZ02-STB"
       /\ devices[k].parsed_props.role = PyStr("X")
       /\ devices[k].parsed_props.subrole = PyStr("ZZ")
       /\ devices[k].parsed_props.status = PyStr("standby")

\* the short code of a normalized value: the key of the table that maps to
\* it, the value itself when it is no label of the table
Encode(map, value) ==
    IF value.t = "str" /\ \E c \in DOMAIN map : map[c] = value.v
    THEN PyStr(CHOOSE c \in DOMAIN map : map[c] = value.v)
    ELSE value

\* no two codes of the table share a label, and every label is longer than
\* a code of that width, so a raw code is never taken for a label
Invertible(map, width) ==
    /\ \A c, d \in DOMAIN map : map[c] = map[d] => c = d
    /\ \A c \in DOMAIN map : Len(c) = width /\ Len(map[c]) > width

\* C3: for a name that matches, re-encoding the parsed role, subrole and
\* status gives back the codes of the name; the three tables are injective
\* and no raw code can be taken for a label.
C3_RoundTrip ==
    \A k \in DOMAIN devices :
       (Parsed(devices[k]) /\ FitsConvention(devices[k].name)) =>
          LET p == devices[k].parsed_props
              name == devices[k].name
          IN  /\ Invertible(HOSTNAME_ROLE_MAP, 1)
              /\ Invertible(HOSTNAME_SUBROLE_MAP, 2)
              /\ Invertible(HOSTNAME_STATUS_MAP, 3)
              /\ Encode(HOSTNAME_ROLE_MAP, p.role) = PyStr(RoleCode(name))
              /\ Encode(HOSTNAME_SUBROLE_MAP, p.subrole) = PyStr(SubroleCode(name))
              /\ Encode(HOSTNAME_STATUS_MAP, p.status) = StatusCode(name)

\* a name with the codes O, WO and OLD has been parsed: role and subrole
\* share the label wan-accelerator, each in its own table
C3_Witness ==
    \E k \in DOMAIN devices :
       /\ Parsed(devices[k])
       /\ Join(devices[k].name) = "OFUL01WO02-OLD"
       /\ devices[k].parsed_props.role = PyStr("wan-accelerator")
       /\ devices[k].parsed_props.subrole = PyStr("wan-accelerator")
       /\ devices[k].parsed_props.status = PyStr("legacy")

----------------------------------------------------------------------------
(* Properties of the tag derivation *)

\* the parsed values include distribution-switch or core-router
IsRedundantKind(props) ==
    \E f \in DOMAIN props :
       props[f] \in {PyStr("distribution-switch"), PyStr("core-router")}

\* C4: the derived tags contain primary exactly when the parsed values
\* include distribution-switch or core-router and the index is 1, and
\* secondary exactly when they do and the index is 2.
C4_PrimarySecondary ==
    last_call.t = "get_device_tags" =>
       LET p == last_call.device.parsed_props
           tags == last_call.result
       IN  /\ "primary" \in tags <=> (IsRedundantKind(p) /\ p.index = PyInt(1))
           /\ "secondary" \in tags <=> (IsRedundantKind(p) /\ p.index = PyInt(2))

\* the tags of a core router of index 2 have been derived
C4_Witness ==
    /\ last_call.t = "get_device_tags"
    /\ last_call.device.parsed_props.subrole = PyStr("core-router")
    /\ last_call.device.parsed_props.index = PyInt(2)
    /\ "secondary" \in last_call.result
    /\ "primary" \notin last_call.result

\* the model string names a 3850 or a 3750
DualRoleModel(model) ==
    \E k \in 1..(Len(model) - 3) :
       Join(SubSeq(model, k, k + 3)) \in {"3850", "3750"}

\* C5: a core router whose model contains 3850 or 3750 also gets
\* access-switch; a core router of another model, and a device that is no
\* core router and whose subrole is not access-switch, does not.
C5_DualRole ==
    last_call.t = "get_device_tags" =>
       LET p == last_call.device.parsed_props
           model == last_call.device.device_type.model
           tags == last_call.result
       IN  /\ ("core-router" \in tags /\ DualRoleModel(model)) => "access-switch" \in tags
           /\ ("core-router" \in tags /\ ~DualRoleModel(model)) => "access-switch" \notin tags
           /\ ("core-router" \notin tags /\ p.subrole # PyStr("access-switch"))
                 => "access-switch" \notin tags
           /\ (p.subrole = PyStr("core-router") /\ p.index = PyInt(1) /\ DualRoleModel(model))
                 => {"core-router", "primary", "access-switch"} \subseteq tags

\* the tags of a core router of index 1 and a 3750 model have been derived
C5_Witness ==
    /\ last_call.t = "get_device_tags"
    /\ last_call.device.parsed_props.subrole = PyStr("core-router")
    /\ last_call.device.parsed_props.index = PyInt(1)
    /\ Join(last_call.device.device_type.model) = "WS-C3750"
    /\ {"core-router", "primary", "access-switch"} \subseteq last_call.result

----------------------------------------------------------------------------
(* Properties of the STP root selection *)

\* the positions of the devices of a subrole and an index
PositionsOf(subrole, index) ==
    {k \in DOMAIN devices :
        /\ devices[k].parsed_props.subrole = PyStr(subrole)
        /\ devices[k].parsed_props.index = PyInt(index)}

\* the group get_stp_root is to choose from: the distribution switches when
\* the list has one of any index, the core routers otherwise
ChosenGroup ==
    IF \E k \in DOMAIN devices :
          devices[k].parsed_props.subrole = PyStr("distribution-switch")
    THEN "distribution-switch"
    ELSE "core-router"

\* C6: with a distribution switch of any index in the list only distribution
\* switches are returned, otherwise only core routers; a returned primary
\* has index 1 and a returned secondary index 2; a slot with no device of
\* its index in the chosen group is None; the empty list gives two None.
C6_DistributionFirst ==
    stp_root # NotCalled =>
       LET Slot(value, index) ==
              IF PositionsOf(ChosenGroup, index) = {}
              THEN value = PyNone
              ELSE /\ value \in Range(devices)
                   /\ value.parsed_props.subrole = PyStr(ChosenGroup)
                   /\ value.parsed_props.index = PyInt(index)
       IN  /\ Slot(stp_root.primary, 1)
           /\ Slot(stp_root.secondary, 2)
           /\ devices = <<>> => stp_root = [primary |-> PyNone, secondary |-> PyNone]

\* the list holds a core router of index 1 and distribution switches, none
\* of them of index 1: the primary slot is None, the secondary a
\* distribution switch
C6_Witness ==
    /\ stp_root # NotCalled
    /\ PositionsOf("core-router", 1) # {}
    /\ PositionsOf("distribution-switch", 1) = {}
    /\ PositionsOf("distribution-switch", 2) # {}
    /\ stp_root.primary = PyNone
    /\ stp_root.secondary # PyNone
    /\ stp_root.secondary.parsed_props.subrole = PyStr("distribution-switch")

\* C10: when several devices of the chosen group share index 1 (or 2), the
\* slot holds the one that comes last in the list.
C10_LastWins ==
    stp_root # NotCalled =>
       LET Last(index) ==
              devices[CHOOSE k \in PositionsOf(ChosenGroup, index) :
                         \A m \in PositionsOf(ChosenGroup, index) : m <= k]
       IN  /\ PositionsOf(ChosenGroup, 1) # {} => stp_root.primary = Last(1)
           /\ PositionsOf(ChosenGroup, 2) # {} => stp_root.secondary = Last(2)

\* two devices of the chosen group share index 1 and the primary is the
\* later one, not the earlier
C10_Witness ==
    /\ stp_root # NotCalled
    /\ \E j, k \in PositionsOf(ChosenGroup, 1) :
          /\ j < k
          /\ stp_root.primary = devices[k]
          /\ stp_root.primary # devices[j]

----------------------------------------------------------------------------
(* Properties of the tag update and of the thread pool *)

\* the device of the list with that name (the names of a list differ)
DeviceNamed(name) == devices[CHOOSE k \in DOMAIN devices : devices[k].name = name]

\* the requests update_device_tags has built so far: the accepted ones and
\* those whose call is under way
RequestsBuilt ==
    Range(nb_calls) \cup {thread[w].request : w \in {v \in DOMAIN thread : thread[v] # PyNone}}

\* the accepted requests that name the device
AcceptedFor(device) == {i \in DOMAIN nb_calls : nb_calls[i].device_name = device.name}

C8_EveryDeviceRuns ==
    pc \in {"returned", "verify_all_platforms raised"} =>
       \A k \in DOMAIN devices : k \in DOMAIN runs /\ runs[k] = 1

\* C8 for update_all_device_tags alone: when map_threads has returned, every
\* device had its worker run exactly once and every work item has ended, by
\* a result or by an exception.
C8_UpdateAllRuns ==
    pc = "returned" =>
       \A k \in DOMAIN devices :
          /\ runs[k] = 1
          /\ future[k] \in {"result", "exception"}

\* C8 for update_all_device_tags alone: no worker runs twice and an accepted
\* request stays accepted
C8_NoRollback ==
    [][/\ \A k \in DOMAIN runs : runs[k] <= 1
       /\ Len(nb_calls') >= Len(nb_calls)
       /\ SubSeq(nb_calls', 1, Len(nb_calls)) = nb_calls]_vars

\* C8 for update_all_device_tags alone: map_threads returns, whichever calls
\* fail
C8_UpdateAllEnds == (pc = "map") ~> (pc = "returned")

\* a call failed for one device and the worker still ran for the others
C8_FailureSeen ==
    /\ pc = "returned"
    /\ \E j, k \in DOMAIN future :
          /\ future[j] = "exception"
          /\ future[k] = "result"
          /\ nb_calls # <<>>

----------------------------------------------------------------------------
(* Properties of verify_platform *)

\* the tag verify_platform consults has no entry in PLATFORM_TAG_MAP
UnmappedTag(device) ==
    device.tags # <<>> /\ device.tags[1] \notin DOMAIN PLATFORM_TAG_MAP

\* C9: a device with no platform whose consulted tag has no entry gets no
\* write and verify_platform returns normally; a device whose platform is
\* set gets no write; a write is issued only for a device with no platform
\* whose tag maps to a slug; the device record is left as it was.
C9_NoPlatformMapped ==
    /\ last_call.t = "verify_platform" =>
          LET device == last_call.device
              out == last_call.out
          IN  /\ (device.platform = PyNone /\ UnmappedTag(device))
                    => (out.end = "return" /\ out.write = PyNone)
              /\ device.platform # PyNone
                    => (out.end = "return" /\ out.write = PyNone)
              /\ out.write # PyNone
                    => /\ device.platform = PyNone
                       /\ device.tags # <<>>
                       /\ device.tags[1] \in DOMAIN PLATFORM_TAG_MAP
              /\ device \in Range(devices)
    /\ \A i \in DOMAIN nb_calls :
          nb_calls[i].t = "update_device_by_id" =>
             \E k \in DOMAIN devices :
                /\ devices[k].id = nb_calls[i].device_id
                /\ devices[k].platform = PyNone
                /\ devices[k].tags # <<>>
                /\ devices[k].tags[1] \in DOMAIN PLATFORM_TAG_MAP

\* verify_platform has been applied to a device with no platform whose first
\* tag has no entry, and it returned without a write
C9_Witness ==
    /\ last_call.t = "verify_platform"
    /\ last_call.device.platform = PyNone
    /\ last_call.device.tags = <<"Network-Unknown">>
    /\ last_call.out.end = "return"
    /\ last_call.out.write = PyNone
    /\ nb_calls = <<>>

====
